---- MODULE Spec2Model ----
(***************************************************************************)
(* Model of the topology chart (source/static/js/charts/topology.js):     *)
(* the live node/edge collection of the force simulation, the drag /      *)
(* release handlers, the highlight and visibility passes on the drawn     *)
(* circles, and the save / restore of named layouts against the remote    *)
(* layout store.                                                           *)
(*                                                                         *)
(* JavaScript values are records [t, v]: t is "num", "undefined", "null"   *)
(* or "NaN"; v is the number of a "num" and 0 otherwise.  Coordinates are  *)
(* integers; the pointer and the switch centres are drawn from lattice     *)
(* points at which the ring projection cos/sin(atan2) is exact.            *)
(***************************************************************************)
EXTENDS Integers, Sequences, FiniteSets, TLC

VARIABLES
    phase,        \* "loading" | "ready" | "failed": the d3.json(url, ...) callback
    graph,        \* the snapshot the topology source answers with (index of Graphs)
    nodes,        \* simulation.nodes(): sequence of node objects
    links,        \* simulation.force('link').links(): resolved edges (node indices)
    downlight,    \* per drawn circle (same index as nodes): class 'downlight'
    invisible,    \* per drawn circle: class 'invisible'
    hide_unused_interfaces,   \* $('#hide_unused_interfaces')[0].checked
    hide_disconnected_hosts,  \* $('#hide_disconnected_hosts')[0].checked
    active,       \* nodes with a drag gesture in progress
    alphaTarget,  \* simulation.alphaTarget(), in tenths (3 is 0.3)
    running,      \* whether the simulation's timer runs
    context,      \* the detail panel: 0 is 'Loading ...', else the switch shown
    store,        \* remote layout store: layout name -> serialized layout or NoLayout
    requests,     \* layout store requests in flight
    saveDialog,   \* the #saveLayout modal: "open" | "closed"
    notice,       \* the last alert() shown, "" when none yet
    savedLayouts, \* the #savedLayouts control: whether rebuilt, and its options
    uncaught,     \* whether a handler has ended in an uncaught exception
    spent         \* events so far, per kind (bounds the exploration)

vars == << phase, graph, nodes, links, downlight, invisible,
           hide_unused_interfaces, hide_disconnected_hosts, active, alphaTarget,
           running, context, store, requests, saveDialog, notice, savedLayouts,
           uncaught, spent >>

\* groups of variables a handler leaves alone
topology == << phase, graph, links >>
circles == << downlight, invisible >>
checkboxes == << hide_unused_interfaces, hide_disconnected_hosts >>
timer == << alphaTarget, running >>
remote == << store, requests >>
dialogs == << saveDialog, notice, savedLayouts >>

----------------------------------------------------------------------------
(* Bounds of the model *)

\* Simultaneous drag gestures (pointers) followed.
MaxPointers == 2
\* Drag gestures started in one run.
MaxGestures == 2
\* Drag events in one run.
MaxDragEvents == 2
\* Simulation ticks in one run.
MaxTicks == 1
\* Layout store requests issued in one run.
MaxRequests == 2
\* Layout store requests in flight at once.
MaxInFlight == 2
\* Coordinates are kept within -MaxCoord .. MaxCoord.
MaxCoord == 200

----------------------------------------------------------------------------
(* JavaScript values *)

Num(n) == [t |-> "num", v |-> n]
Undefined == [t |-> "undefined", v |-> 0]
Null == [t |-> "null", v |-> 0]
NaN == [t |-> "NaN", v |-> 0]

IsNum(a) == a.t = "num"

\* `a == undefined` (loose equality): true of undefined and of null only.
LooseUndefined(a) == a.t \in {"undefined", "null"}

\* ToNumber: null is 0, undefined is NaN.
ToNumber(a) == IF a.t = "num" THEN a ELSE IF a.t = "null" THEN Num(0) ELSE NaN

JsAdd(a, b) ==
    LET x == ToNumber(a)
        y == ToNumber(b)
    IN IF IsNum(x) /\ IsNum(y) THEN Num(x.v + y.v) ELSE NaN

JsSub(a, b) ==
    LET x == ToNumber(a)
        y == ToNumber(b)
    IN IF IsNum(x) /\ IsNum(y) THEN Num(x.v - y.v) ELSE NaN

----------------------------------------------------------------------------
(* Program constants *)

size_switch == 20

\* distance['interface']: the ring radius.
distance_interface == size_switch + 10

----------------------------------------------------------------------------
(* Names and drawn-circle identifiers *)

\* A name is a sequence of one-character strings.
RECURSIVE fix_name(_)
fix_name(name) ==
    IF name = << >> THEN << >>
    ELSE IF Head(name) = ":" THEN << "_", "_" >> \o fix_name(Tail(name))
    ELSE << Head(name) >> \o fix_name(Tail(name))

RECURSIVE unfix_name(_)
unfix_name(name) ==
    IF name = << >> THEN << >>
    ELSE IF Len(name) >= 2 /\ name[1] = "_" /\ name[2] = "_"
         THEN << ":" >> \o unfix_name(Tail(Tail(name)))
    ELSE << Head(name) >> \o unfix_name(Tail(name))

\* '#node-' + type + '-' + fix_name(name)
NodeId(type, name) == << "node", type, fix_name(name) >>

----------------------------------------------------------------------------
(* Topology snapshots the topology source may answer with *)

N(name, type) == [name |-> name, type |-> type]
L(type, source, target) == [type |-> type, source |-> source, target |-> target]

\* A switch with two interfaces, one linked to a host and one unused.
GraphPlain ==
    [nodes |-> << N(<< "s" >>, "switch"),
                  N(<< "s", ":", "1" >>, "interface"),
                  N(<< "s", ":", "2" >>, "interface"),
                  N(<< "h" >>, "host") >>,
     links |-> << L("interface", 1, 2), L("interface", 1, 3), L("link", 2, 4) >>]

\* Two switches, each with its interface, the interfaces linked to each other.
GraphPair ==
    [nodes |-> << N(<< "s" >>, "switch"),
                  N(<< "t" >>, "switch"),
                  N(<< "s", ":", "1" >>, "interface"),
                  N(<< "t", ":", "1" >>, "interface") >>,
     links |-> << L("interface", 1, 3), L("interface", 2, 4), L("link", 3, 4) >>]

\* A linked host and a disconnected host.
GraphHosts ==
    [nodes |-> << N(<< "s" >>, "switch"),
                  N(<< "s", ":", "1" >>, "interface"),
                  N(<< "h" >>, "host"),
                  N(<< "g" >>, "host") >>,
     links |-> << L("interface", 1, 2), L("link", 2, 3) >>]

\* Interface names that differ only in ':' against '__': the switch owns the
\* second one, which is unused; no 'interface' edge targets the first one,
\* which is linked to the host.
GraphOdd ==
    [nodes |-> << N(<< "s" >>, "switch"),
                  N(<< "a", ":", "b" >>, "interface"),
                  N(<< "a", "_", "_", "b" >>, "interface"),
                  N(<< "h" >>, "host") >>,
     links |-> << L("interface", 1, 3), L("link", 2, 4) >>]

\* Host names that differ only in ':' against '__'.
GraphOddHosts ==
    [nodes |-> << N(<< "s" >>, "switch"),
                  N(<< "s", ":", "1" >>, "interface"),
                  N(<< "h", ":", "c" >>, "host"),
                  N(<< "h", "_", "_", "c" >>, "host") >>,
     links |-> << L("interface", 1, 2), L("link", 2, 3) >>]

Graphs == << GraphPlain, GraphPair, GraphHosts, GraphOdd, GraphOddHosts >>

\* Points the pointer visits and free nodes settle at: the difference of two
\* of them is a multiple of (4, 3), of integer length.
Lattice == << [x |-> 0, y |-> 0], [x |-> 40, y |-> 30] >>

LatticePoints == { Lattice[k] : k \in 1..Len(Lattice) }

\* The position the simulation gives node i when it is seeded.
InitialPosition(i) == Lattice[((i - 1) % Len(Lattice)) + 1]

NodeIndices == 1..Len(nodes)

InBox(a) == IsNum(a) => (a.v >= -MaxCoord /\ a.v <= MaxCoord)

----------------------------------------------------------------------------
(* Lookup helpers *)

RECURSIVE OwnerScan(_, _, _)
OwnerScan(ls, name, found) ==
    IF ls = << >> THEN found
    ELSE OwnerScan(Tail(ls), name,
                   IF Head(ls).type = "interface" /\ nodes[Head(ls).target].name = name
                   THEN Head(ls).source ELSE found)

\* The source of the last 'interface' edge that targets d, 0 for null.
get_interface_owner(d) == OwnerScan(links, nodes[d].name, 0)

RECURSIVE InterfaceScan(_, _)
InterfaceScan(ls, name) ==
    IF ls = << >> THEN << >>
    ELSE (IF Head(ls).type = "interface" /\ nodes[Head(ls).source].name = name
          THEN << Head(ls).target >> ELSE << >>) \o InterfaceScan(Tail(ls), name)

\* The targets of the 'interface' edges whose source is d, in edge order.
get_switch_interfaces(d) == InterfaceScan(links, nodes[d].name)

get_nodes_by_type(type) == SelectSeq([i \in NodeIndices |-> i], LAMBDA i : nodes[i].type = type)

get_interfaces == get_nodes_by_type("interface")

get_hosts == get_nodes_by_type("host")

get_node_links(node) == SelectSeq(links, LAMBDA l : l.target = node \/ l.source = node)

SeqRange(s) == { s[k] : k \in 1..Len(s) }

----------------------------------------------------------------------------
(* The ring projection *)

Isqrt(m) == CHOOSE k \in 0..(3 * MaxCoord) : k * k <= m /\ m < (k + 1) * (k + 1)

\* A faulty variant that leaves the pointer where it is, off the ring.
radius_positioning_unconstrained(cx, cy, x, y) == << x, y >>

\* cx + cos(atan2(dy, dx)) * r, cy + sin(atan2(dy, dx)) * r; atan2(0, 0) is 0.
radius_positioning(cx, cy, x, y) ==
    LET delta_x == JsSub(x, cx)
        delta_y == JsSub(y, cy)
    IN IF ~(IsNum(delta_x) /\ IsNum(delta_y) /\ IsNum(ToNumber(cx)) /\ IsNum(ToNumber(cy)))
       THEN << NaN, NaN >>
       ELSE LET n == Isqrt(delta_x.v * delta_x.v + delta_y.v * delta_y.v)
            IN IF n = 0
               THEN << JsAdd(cx, Num(distance_interface)), JsAdd(cy, Num(0)) >>
               ELSE << JsAdd(cx, Num((delta_x.v * distance_interface) \div n)),
                       JsAdd(cy, Num((delta_y.v * distance_interface) \div n)) >>

----------------------------------------------------------------------------
(* The drawn circles *)

\* d3.select('#' + id): the first circle in document order with that id, 0
\* when there is none.
Select(id) ==
    IF \E i \in NodeIndices : NodeId(nodes[i].type, nodes[i].name) = id
    THEN CHOOSE i \in NodeIndices :
            /\ NodeId(nodes[i].type, nodes[i].name) = id
            /\ \A j \in NodeIndices : NodeId(nodes[j].type, nodes[j].name) = id => i <= j
    ELSE 0

\* selection.classed(cls, value) on the class flags of the circles.
Classed(flags, i, value) == IF i = 0 THEN flags ELSE [flags EXCEPT ![i] = value]

\* d3.selectAll("[id^='node-<type>-']").classed(cls, value)
ClassedAll(flags, type, value) ==
    [i \in DOMAIN flags |-> IF nodes[i].type = type THEN value ELSE flags[i]]

node_highlight(flags, node) ==
    Classed(flags, Select(NodeId(nodes[node].type, nodes[node].name)), FALSE)

downlight_all_switches(flags) == ClassedAll(flags, "switch", TRUE)

downlight_all_interfaces(flags) == ClassedAll(flags, "interface", TRUE)

RECURSIVE HighlightEach(_, _)
HighlightEach(flags, ifs) ==
    IF ifs = << >> THEN flags
    ELSE HighlightEach(node_highlight(flags, Head(ifs)), Tail(ifs))

highlight_switch(flags, obj) ==
    HighlightEach(node_highlight(downlight_all_interfaces(downlight_all_switches(flags)), obj),
                  get_switch_interfaces(obj))

Unused(interface) == \A k \in 1..Len(get_node_links(interface)) :
                        get_node_links(interface)[k].type # "link"

RECURSIVE ToggleUnusedEach(_, _, _)
ToggleUnusedEach(flags, ifs, hide) ==
    IF ifs = << >> THEN flags
    ELSE ToggleUnusedEach(
            IF Unused(Head(ifs))
            THEN Classed(flags, Select(NodeId("interface", nodes[Head(ifs)].name)), hide)
            ELSE flags,
            Tail(ifs), hide)

toggle_unused_interfaces(flags, hide) == ToggleUnusedEach(flags, get_interfaces, hide)

RECURSIVE ToggleHostsEach(_, _, _)
ToggleHostsEach(flags, hs, hide) ==
    IF hs = << >> THEN flags
    ELSE ToggleHostsEach(
            IF Len(get_node_links(Head(hs))) = 0
            THEN Classed(flags, Select(NodeId("host", nodes[Head(hs)].name)), hide)
            ELSE flags,
            Tail(hs), hide)

toggle_disconnected_hosts(flags, hide) == ToggleHostsEach(flags, get_hosts, hide)

----------------------------------------------------------------------------
(* Layouts *)

LayoutNames == { "A", "B" }

CoordinateKeys == { "x", "y", "fx", "fy" }

\* Reading a key of a parsed object: undefined when the key is absent.
Get(obj, key) == IF key \in DOMAIN obj THEN obj[key] ELSE Undefined

\* The last node with the name (a later assignment to layout.nodes[name] wins).
LastNamed(name) == CHOOSE i \in NodeIndices :
                      /\ nodes[i].name = name
                      /\ \A j \in NodeIndices : nodes[j].name = name => j <= i

NodeData(i) ==
    [name |-> nodes[i].name, type |-> nodes[i].type,
     x |-> nodes[i].x, y |-> nodes[i].y, fx |-> nodes[i].fx, fy |-> nodes[i].fy,
     downlight |-> downlight[Select(NodeId(nodes[i].type, nodes[i].name))]]

get_current_layout ==
    [nodes |-> [name \in { nodes[i].name : i \in NodeIndices } |-> NodeData(LastNamed(name))],
     other_settings |-> [hide_unused_interfaces |-> hide_unused_interfaces,
                         hide_disconnected_hosts |-> hide_disconnected_hosts]]

\* JSON.stringify of one node_data, as the object JSON.parse gives back: a key
\* whose value is undefined is left out, NaN is written as null.
StringifyNode(data) ==
    [k \in { k \in DOMAIN data : k \in CoordinateKeys => data[k].t # "undefined" } |->
        IF k \in CoordinateKeys /\ data[k].t = "NaN" THEN Null ELSE data[k]]

\* The layout as the store keeps it and answers it.
JSON_stringify(layout) ==
    [nodes |-> [name \in DOMAIN layout.nodes |-> StringifyNode(layout.nodes[name])],
     other_settings |-> layout.other_settings,
     saved |-> TRUE]

NoLayout == [nodes |-> << >>,
             other_settings |-> [hide_unused_interfaces |-> FALSE,
                                 hide_disconnected_hosts |-> FALSE],
             saved |-> FALSE]

\* Layouts the store holds from earlier sessions, whose topology had only
\* some of the nodes of graph g.
Pinned(n, p, lit) ==
    [name |-> n.name, type |-> n.type, x |-> Num(p.x), y |-> Num(p.y),
     fx |-> Num(p.x), fy |-> Num(p.y), downlight |-> lit]

Free(n, p, lit) ==
    [name |-> n.name, type |-> n.type, x |-> Num(p.x), y |-> Num(p.y), downlight |-> lit]

StoredNodes(g, which) ==
    LET ns == Graphs[g].nodes
    IN IF which = "A"
       THEN [name \in { ns[i].name : i \in {1, 3, 4} \cap DOMAIN ns } |->
                LET i == CHOOSE i \in DOMAIN ns : ns[i].name = name
                IN IF i = 1 THEN Pinned(ns[i], Lattice[2], FALSE)
                   ELSE Free(ns[i], Lattice[1], TRUE)]
       ELSE [name \in { ns[i].name : i \in {1, 2, 3} \cap DOMAIN ns } |->
                LET i == CHOOSE i \in DOMAIN ns : ns[i].name = name
                IN IF i = 1 THEN Free(ns[i], Lattice[2], TRUE)
                   ELSE IF i = 2 THEN Pinned(ns[i], Lattice[2], FALSE)
                   ELSE Pinned(ns[i], Lattice[1], FALSE)]

StoredLayout(g, which) ==
    [nodes |-> StoredNodes(g, which),
     other_settings |-> [hide_unused_interfaces |-> (which = "A"),
                         hide_disconnected_hosts |-> (which = "B")],
     saved |-> TRUE]

\* The `$.each(simulation.nodes(), ...)` of the restore_layout callback: the
\* node fields.
RestoredNodes(layout) ==
    [i \in NodeIndices |->
        IF nodes[i].name \in DOMAIN layout.nodes
        THEN LET restored_node == layout.nodes[nodes[i].name]
             IN [nodes[i] EXCEPT !.x = Get(restored_node, "x"),
                                 !.y = Get(restored_node, "y"),
                                 !.fx = Get(restored_node, "fx"),
                                 !.fy = Get(restored_node, "fy")]
        ELSE nodes[i]]

\* The same loop: the 'downlight' class, node after node from node i on.
RECURSIVE RestoredDownlight(_, _, _)
RestoredDownlight(flags, layout, i) ==
    IF i > Len(nodes) THEN flags
    ELSE RestoredDownlight(
            IF nodes[i].name \in DOMAIN layout.nodes
            THEN Classed(flags, Select(NodeId(nodes[i].type, nodes[i].name)),
                         layout.nodes[nodes[i].name].downlight)
            ELSE flags,
            layout, i + 1)

\* checkbox.click(): the box flips and its handler re-applies the visibility
\* pass with the new value.
ClickUnused(box) ==
    [checked |-> ~box.checked,
     invisible |-> toggle_unused_interfaces(box.invisible, ~box.checked)]

ClickHosts(box) ==
    [checked |-> ~box.checked,
     invisible |-> toggle_disconnected_hosts(box.invisible, ~box.checked)]

\* A faulty variant that clicks whatever the stored value.
RestoredUnused_unconditional(layout) ==
    ClickUnused([checked |-> hide_unused_interfaces, invisible |-> invisible])

\* The two `if (stored != checkbox.checked) checkbox.click()` of the callback.
RestoredUnused(layout) ==
    LET box == [checked |-> hide_unused_interfaces, invisible |-> invisible]
    IN IF layout.other_settings.hide_unused_interfaces # hide_unused_interfaces
       THEN ClickUnused(box) ELSE box

RestoredHosts(layout) ==
    LET box == [checked |-> hide_disconnected_hosts,
                invisible |-> RestoredUnused(layout).invisible]
    IN IF layout.other_settings.hide_disconnected_hosts # hide_disconnected_hosts
       THEN ClickHosts(box) ELSE box

----------------------------------------------------------------------------
(* Initial state and the topology fetch *)

Init ==
    /\ phase = "loading"
    /\ graph \in 1..Len(Graphs)
    /\ nodes = << >>
    /\ links = << >>
    /\ downlight = << >>
    /\ invisible = << >>
    /\ hide_unused_interfaces = FALSE
    /\ hide_disconnected_hosts = FALSE
    /\ active = {}
    /\ alphaTarget = 0
    /\ running = TRUE
    /\ context = 0
    /\ store = [name \in LayoutNames |-> StoredLayout(graph, name)]
    /\ requests = {}
    /\ saveDialog = "closed"
    /\ notice = ""
    /\ savedLayouts = [rebuilt |-> FALSE, options |-> << >>]
    /\ uncaught = FALSE
    /\ spent = [gestures |-> 0, drags |-> 0, ticks |-> 0, requests |-> 0, lists |-> 0]

SeedNode(i, n) ==
    [name |-> n.name, type |-> n.type,
     x |-> Num(InitialPosition(i).x), y |-> Num(InitialPosition(i).y),
     fx |-> Undefined, fy |-> Undefined,
     old_fx |-> Undefined, old_fy |-> Undefined]

\* d3.json callback with a graph: the circles are drawn and the simulation seeded.
TopologyLoaded ==
    /\ phase = "loading"
    /\ phase' = "ready"
    /\ nodes' = [i \in 1..Len(Graphs[graph].nodes) |-> SeedNode(i, Graphs[graph].nodes[i])]
    /\ links' = Graphs[graph].links
    /\ downlight' = [i \in 1..Len(Graphs[graph].nodes) |-> FALSE]
    /\ invisible' = [i \in 1..Len(Graphs[graph].nodes) |-> FALSE]
    /\ UNCHANGED << graph, checkboxes, active, timer, context, remote, dialogs,
                    uncaught, spent >>

\* A faulty variant that draws and seeds the graph before it throws.
TopologyFailed_partial ==
    /\ phase = "loading"
    /\ phase' = "failed"
    /\ uncaught' = TRUE
    /\ nodes' = [i \in 1..Len(Graphs[graph].nodes) |-> SeedNode(i, Graphs[graph].nodes[i])]
    /\ downlight' = [i \in 1..Len(Graphs[graph].nodes) |-> FALSE]
    /\ invisible' = [i \in 1..Len(Graphs[graph].nodes) |-> FALSE]
    /\ UNCHANGED << graph, links, checkboxes, active, timer, context, remote, dialogs,
                    spent >>

\* d3.json callback with an error: `if (error) throw error`.
TopologyFailed ==
    /\ phase = "loading"
    /\ phase' = "failed"
    /\ uncaught' = TRUE
    /\ UNCHANGED << graph, nodes, links, circles, checkboxes, active, timer, context,
                    remote, dialogs, spent >>

----------------------------------------------------------------------------
(* Drag gestures *)

dragstarted(d) ==
    /\ d \in NodeIndices
    /\ d \notin active
    /\ Cardinality(active) < MaxPointers
    /\ spent.gestures < MaxGestures
    /\ spent' = [spent EXCEPT !.gestures = @ + 1]
    /\ active' = active \cup {d}
    /\ IF active = {}
       THEN alphaTarget' = 3 /\ running' = TRUE
       ELSE UNCHANGED timer
    /\ nodes' = [nodes EXCEPT ![d] =
                    [nodes[d] EXCEPT
                        !.old_fx = IF nodes[d].type = "switch" THEN nodes[d].x
                                   ELSE nodes[d].old_fx,
                        !.old_fy = IF nodes[d].type = "switch" THEN nodes[d].y
                                   ELSE nodes[d].old_fy,
                        !.fx = nodes[d].x,
                        !.fy = nodes[d].y]]
    /\ UNCHANGED << topology, circles, checkboxes, context, remote, dialogs, uncaught >>

\* The $.each body of the switch branch of dragged, over the interfaces in order.
RECURSIVE MoveInterfaces(_, _, _, _)
MoveInterfaces(ns, ifs, delta_x, delta_y) ==
    IF ifs = << >> THEN ns
    ELSE LET i == Head(ifs)
             pinned == IF LooseUndefined(ns[i].fx)
                       THEN [ns[i] EXCEPT !.fx = ns[i].x, !.fy = ns[i].y]
                       ELSE ns[i]
             moved == [pinned EXCEPT !.fx = JsAdd(pinned.fx, delta_x),
                                     !.fy = JsAdd(pinned.fy, delta_y)]
         IN MoveInterfaces([ns EXCEPT ![i] = moved], Tail(ifs), delta_x, delta_y)

DraggedSwitch(d, px, py) ==
    LET s1 == [nodes[d] EXCEPT !.old_fx = nodes[d].fx, !.old_fy = nodes[d].fy]
        s2 == [s1 EXCEPT !.fx = Num(px), !.fy = Num(py)]
        delta_x == JsSub(s2.fx, s2.old_fx)
        delta_y == JsSub(s2.fy, s2.old_fy)
    IN MoveInterfaces([nodes EXCEPT ![d] = s2], get_switch_interfaces(d), delta_x, delta_y)

\* The interface branch of dragged, for an interface whose owner was found.
DraggedInterface(d, owner, px, py) ==
    LET cx == IF LooseUndefined(nodes[owner].fx) THEN nodes[owner].x ELSE nodes[owner].fx
        cy == IF LooseUndefined(nodes[owner].fx) THEN nodes[owner].y ELSE nodes[owner].fy
        new_positions == radius_positioning(cx, cy, Num(px), Num(py))
    IN [nodes EXCEPT ![d] = [nodes[d] EXCEPT !.fx = new_positions[1],
                                             !.fy = new_positions[2]]]

DraggedOther(d, px, py) ==
    [nodes EXCEPT ![d] = [nodes[d] EXCEPT !.fx = Num(px), !.fy = Num(py)]]

\* get_interface_owner gave null: reading owner.fx throws a TypeError and the
\* handler ends there.
DraggedThrows(d) == nodes[d].type = "interface" /\ get_interface_owner(d) = 0

dragged(d, px, py) ==
    /\ d \in active
    /\ spent.drags < MaxDragEvents
    /\ spent' = [spent EXCEPT !.drags = @ + 1]
    /\ nodes' = IF nodes[d].type = "switch" THEN DraggedSwitch(d, px, py)
                ELSE IF nodes[d].type = "interface"
                     THEN IF DraggedThrows(d) THEN nodes
                          ELSE DraggedInterface(d, get_interface_owner(d), px, py)
                ELSE DraggedOther(d, px, py)
    /\ uncaught' = (uncaught \/ DraggedThrows(d))
    /\ \A i \in NodeIndices : InBox(nodes'[i].fx) /\ InBox(nodes'[i].fy)
    /\ UNCHANGED << topology, circles, checkboxes, active, timer, context, remote,
                    dialogs >>

\* A faulty variant that cools whatever other gestures are in progress.
dragended_cooling(d) ==
    /\ d \in active
    /\ active' = active \ {d}
    /\ alphaTarget' = 0
    /\ UNCHANGED << topology, nodes, circles, checkboxes, running, context, remote,
                    dialogs, uncaught, spent >>

\* A faulty variant that lets the node go when the gesture ends.
dragended_releasing(d) ==
    /\ d \in active
    /\ active' = active \ {d}
    /\ alphaTarget' = IF active \ {d} = {} THEN 0 ELSE alphaTarget
    /\ nodes' = [nodes EXCEPT ![d] = [nodes[d] EXCEPT !.fx = Null, !.fy = Null]]
    /\ UNCHANGED << topology, circles, checkboxes, running, context, remote,
                    dialogs, uncaught, spent >>

dragended(d) ==
    /\ d \in active
    /\ active' = active \ {d}
    /\ alphaTarget' = IF active \ {d} = {} THEN 0 ELSE alphaTarget
    /\ UNCHANGED << topology, nodes, circles, checkboxes, running, context, remote,
                    dialogs, uncaught, spent >>

\* The $.each body of release_node, over the interfaces in order.
RECURSIVE ReleaseInterfaces(_, _)
ReleaseInterfaces(ns, ifs) ==
    IF ifs = << >> THEN ns
    ELSE ReleaseInterfaces([ns EXCEPT ![Head(ifs)] =
                                [ns[Head(ifs)] EXCEPT !.fx = Null, !.fy = Null]],
                           Tail(ifs))

\* A faulty variant that forgets the interfaces of a switch.
ReleasedNodes_node_only(d) ==
    [nodes EXCEPT ![d] = [nodes[d] EXCEPT !.fx = Null, !.fy = Null]]

ReleasedNodes(d) ==
    LET ns == [nodes EXCEPT ![d] = [nodes[d] EXCEPT !.fx = Null, !.fy = Null]]
    IN IF nodes[d].type = "switch" THEN ReleaseInterfaces(ns, get_switch_interfaces(d))
       ELSE ns

\* Double click on a circle.
release_node(d) ==
    /\ d \in NodeIndices
    /\ d \notin active
    /\ nodes' = ReleasedNodes(d)
    /\ UNCHANGED << topology, circles, checkboxes, active, timer, context, remote,
                    dialogs, uncaught, spent >>

----------------------------------------------------------------------------
(* The simulation's timer *)

\* Where a free node at (x, y) is after a tick: the lattice point after the
\* one it is at, the first one from anywhere else.
Drift(x, y) ==
    IF \E k \in 1..Len(Lattice) : x = Num(Lattice[k].x) /\ y = Num(Lattice[k].y)
    THEN LET k == CHOOSE k \in 1..Len(Lattice) :
                      x = Num(Lattice[k].x) /\ y = Num(Lattice[k].y)
         IN Lattice[(k % Len(Lattice)) + 1]
    ELSE Lattice[1]

\* One tick: a fixed node is put at its pin (per coordinate), a free node drifts.
TickNodes ==
    [i \in NodeIndices |->
        LET n == nodes[i]
            to == Drift(n.x, n.y)
            nx == IF ~LooseUndefined(n.fx) THEN n.fx
                  ELSE IF IsNum(ToNumber(n.x)) THEN Num(to.x) ELSE NaN
            ny == IF ~LooseUndefined(n.fy) THEN n.fy
                  ELSE IF IsNum(ToNumber(n.y)) THEN Num(to.y) ELSE NaN
        IN [n EXCEPT !.x = nx, !.y = ny]]

Tick ==
    /\ phase = "ready"
    /\ running
    /\ spent.ticks < MaxTicks
    /\ spent' = [spent EXCEPT !.ticks = @ + 1]
    /\ nodes' = TickNodes
    /\ UNCHANGED << topology, circles, checkboxes, active, timer, context, remote,
                    dialogs, uncaught >>

\* alpha fell below alphaMin: the timer stops (only while the target is 0).
Cool ==
    /\ running
    /\ alphaTarget = 0
    /\ running' = FALSE
    /\ UNCHANGED << topology, nodes, circles, checkboxes, active, alphaTarget, context,
                    remote, dialogs, uncaught, spent >>

----------------------------------------------------------------------------
(* Clicks *)

\* Click on a circle: only a switch has a detail panel and a highlight pass.
show_context(d) ==
    /\ d \in NodeIndices
    /\ nodes[d].type = "switch"
    /\ context' = d
    /\ downlight' = highlight_switch(downlight, d)
    /\ UNCHANGED << topology, nodes, invisible, checkboxes, active, timer, remote,
                    dialogs, uncaught, spent >>

\* Click on the empty canvas.
highlight_all_nodes ==
    /\ downlight' = [i \in DOMAIN downlight |-> FALSE]
    /\ context' = 0
    /\ UNCHANGED << topology, nodes, invisible, checkboxes, active, timer, remote,
                    dialogs, uncaught, spent >>

\* The operator clicks the 'hide unused interfaces' checkbox.
click_hide_unused_interfaces ==
    LET box == ClickUnused([checked |-> hide_unused_interfaces, invisible |-> invisible])
    IN /\ hide_unused_interfaces' = box.checked
       /\ invisible' = box.invisible
       /\ UNCHANGED << topology, nodes, downlight, hide_disconnected_hosts, active, timer,
                       context, remote, dialogs, uncaught, spent >>

\* The operator clicks the 'hide disconnected hosts' checkbox.
click_hide_disconnected_hosts ==
    LET box == ClickHosts([checked |-> hide_disconnected_hosts, invisible |-> invisible])
    IN /\ hide_disconnected_hosts' = box.checked
       /\ invisible' = box.invisible
       /\ UNCHANGED << topology, nodes, downlight, hide_unused_interfaces, active, timer,
                       context, remote, dialogs, uncaught, spent >>

----------------------------------------------------------------------------
(* Layout store requests *)

Request(kind, name, data) ==
    [kind |-> kind, name |-> name, id |-> spent.requests + 1, data |-> data]

CanRequest == Cardinality(requests) < MaxInFlight /\ spent.requests < MaxRequests

\* restore_layout(name): the GET is sent; the callback runs on the answer.
restore_layout(name) ==
    /\ CanRequest
    /\ requests' = requests \cup { Request("restore", name, NoLayout) }
    /\ spent' = [spent EXCEPT !.requests = @ + 1]
    /\ UNCHANGED << topology, nodes, circles, checkboxes, active, timer, context, store,
                    dialogs, uncaught >>

\* The $.getJSON callback of restore_layout, on the layout the store answers.
restore_layout_callback(r) ==
    /\ r \in requests
    /\ r.kind = "restore"
    /\ store[r.name].saved
    /\ requests' = requests \ {r}
    /\ nodes' = RestoredNodes(store[r.name])
    /\ downlight' = RestoredDownlight(downlight, store[r.name], 1)
    /\ hide_unused_interfaces' = RestoredUnused(store[r.name]).checked
    /\ hide_disconnected_hosts' = RestoredHosts(store[r.name]).checked
    /\ invisible' = RestoredHosts(store[r.name]).invisible
    /\ running' = TRUE
    /\ UNCHANGED << topology, active, alphaTarget, context, store, dialogs, uncaught,
                    spent >>

\* The operator opens the save dialog.
open_save_dialog ==
    /\ saveDialog = "closed"
    /\ saveDialog' = "open"
    /\ UNCHANGED << topology, nodes, circles, checkboxes, active, timer, context, remote,
                    notice, savedLayouts, uncaught, spent >>

\* A faulty variant that posts whatever the name.
save_layout_unvalidated(layout_name) ==
    /\ saveDialog = "open"
    /\ CanRequest
    /\ requests' = requests \cup
            { Request("save", layout_name, JSON_stringify(get_current_layout)) }
    /\ spent' = [spent EXCEPT !.requests = @ + 1]
    /\ saveDialog' = "closed"
    /\ UNCHANGED << topology, nodes, circles, checkboxes, active, timer, context, store,
                    notice, savedLayouts, uncaught >>

\* save_layout() with the name typed into #layout-name ("" when empty).
save_layout(layout_name) ==
    /\ saveDialog = "open"
    /\ IF layout_name = ""
       THEN /\ notice' = "Please, choose a name for the layout."
            /\ UNCHANGED << saveDialog, requests, spent >>
       ELSE /\ CanRequest
            /\ requests' = requests \cup
                    { Request("save", layout_name, JSON_stringify(get_current_layout)) }
            /\ spent' = [spent EXCEPT !.requests = @ + 1]
            /\ saveDialog' = "closed"
            /\ UNCHANGED notice
    /\ UNCHANGED << topology, nodes, circles, checkboxes, active, timer, context, store,
                    savedLayouts, uncaught >>

\* The POST is answered with success: the store holds the layout, and the
\* success and done callbacks run.
save_layout_done(r) ==
    /\ r \in requests
    /\ r.kind = "save"
    /\ requests' = requests \ {r}
    /\ store' = [store EXCEPT ![r.name] = r.data]
    /\ notice' = "Layout saved."
    /\ saveDialog' = "closed"
    /\ UNCHANGED << topology, nodes, circles, checkboxes, active, timer, context,
                    savedLayouts, uncaught, spent >>

\* What the store may answer to the request for the list of layout names: no
\* content, null, or an array of names.
Names(v) == [t |-> "array", v |-> v]

ListAnswers == << Undefined, Null, Names(<< >>), Names(<< "A" >>), Names(<< "A", "B" >>) >>

\* load_layouts(): called once, when the #savedLayouts control is ready.
load_layouts ==
    /\ spent.lists = 0
    /\ CanRequest
    /\ requests' = requests \cup { Request("list", "", NoLayout) }
    /\ spent' = [spent EXCEPT !.requests = @ + 1, !.lists = @ + 1]
    /\ UNCHANGED << topology, nodes, circles, checkboxes, active, timer, context, store,
                    dialogs, uncaught >>

\* The success callback of load_layouts, on the answer `layouts`.
load_layouts_success(r, layouts) ==
    /\ r \in requests
    /\ r.kind = "list"
    /\ requests' = requests \ {r}
    /\ IF LooseUndefined(layouts)
       THEN /\ notice' = "There isn't any saved layout to be loaded"
            /\ UNCHANGED savedLayouts
       ELSE /\ savedLayouts' = [rebuilt |-> TRUE, options |-> layouts.v]
            /\ UNCHANGED notice
    /\ UNCHANGED << topology, nodes, circles, checkboxes, active, timer, context, store,
                    saveDialog, uncaught, spent >>

\* A request fails: none of the calls gives $.ajax an error callback.
request_failed(r) ==
    /\ r \in requests
    /\ requests' = requests \ {r}
    /\ UNCHANGED << topology, nodes, circles, checkboxes, active, timer, context, store,
                    dialogs, uncaught, spent >>

----------------------------------------------------------------------------
(* Specifications *)

Pointer == LatticePoints

\* The drag, release and tick handlers on the seeded simulation.
NextDrag ==
    \/ TopologyLoaded
    \/ TopologyFailed
    \/ \E d \in NodeIndices : dragstarted(d)
    \/ \E d \in NodeIndices, p \in Pointer : dragged(d, p.x, p.y)
    \/ \E d \in NodeIndices : dragended(d)
    \/ \E d \in NodeIndices : release_node(d)
    \/ Tick
    \/ Cool

SpecDrag == Init /\ [][NextDrag]_vars

\* The clicks, the visibility checkboxes and the restore of a stored layout.
NextView ==
    \/ TopologyLoaded
    \/ TopologyFailed
    \/ \E d \in NodeIndices : show_context(d)
    \/ highlight_all_nodes
    \/ click_hide_unused_interfaces
    \/ click_hide_disconnected_hosts
    \/ \E name \in LayoutNames : restore_layout(name)
    \/ \E r \in requests : restore_layout_callback(r)
    \/ \E r \in requests : request_failed(r)

SpecView == Init /\ [][NextView]_vars

\* Drag gestures while stored layouts are restored.
NextLayout ==
    \/ TopologyLoaded
    \/ TopologyFailed
    \/ \E d \in NodeIndices : dragstarted(d)
    \/ \E d \in NodeIndices, p \in Pointer : dragged(d, p.x, p.y)
    \/ \E d \in NodeIndices : dragended(d)
    \/ \E name \in LayoutNames : restore_layout(name)
    \/ \E r \in requests : restore_layout_callback(r)

SpecLayout == Init /\ [][NextLayout]_vars

\* Drag gestures, releases and ticks around the restore of one stored layout;
\* the pointer of a drag event is at the second lattice point.
NextPins ==
    \/ TopologyLoaded
    \/ TopologyFailed
    \/ \E d \in NodeIndices : dragstarted(d)
    \/ \E d \in NodeIndices : dragged(d, Lattice[2].x, Lattice[2].y)
    \/ \E d \in NodeIndices : dragended(d)
    \/ \E d \in NodeIndices : release_node(d)
    \/ Tick
    \/ Cool
    \/ \E name \in LayoutNames : spent.requests = 0 /\ restore_layout(name)
    \/ \E r \in requests : restore_layout_callback(r)

SpecPins == Init /\ [][NextPins]_vars

\* The layout store: saving, listing and restoring, around the checkboxes.
NextStore ==
    \/ TopologyLoaded
    \/ TopologyFailed
    \/ click_hide_unused_interfaces
    \/ \E name \in LayoutNames : restore_layout(name)
    \/ \E r \in requests : restore_layout_callback(r)
    \/ open_save_dialog
    \/ \E name \in LayoutNames \cup { "" } : save_layout(name)
    \/ \E r \in requests : save_layout_done(r)
    \/ load_layouts
    \/ \E r \in requests, k \in 1..Len(ListAnswers) : load_layouts_success(r, ListAnswers[k])
    \/ \E r \in requests : request_failed(r)

SpecStore == Init /\ [][NextStore]_vars

\* Every handler.
Next ==
    \/ TopologyLoaded
    \/ TopologyFailed
    \/ \E d \in NodeIndices : dragstarted(d)
    \/ \E d \in NodeIndices, p \in Pointer : dragged(d, p.x, p.y)
    \/ \E d \in NodeIndices : dragended(d)
    \/ \E d \in NodeIndices : release_node(d)
    \/ Tick
    \/ Cool
    \/ \E d \in NodeIndices : show_context(d)
    \/ highlight_all_nodes
    \/ click_hide_unused_interfaces
    \/ click_hide_disconnected_hosts
    \/ \E name \in LayoutNames : restore_layout(name)
    \/ \E r \in requests : restore_layout_callback(r)
    \/ open_save_dialog
    \/ \E name \in LayoutNames \cup { "" } : save_layout(name)
    \/ \E r \in requests : save_layout_done(r)
    \/ load_layouts
    \/ \E r \in requests, k \in 1..Len(ListAnswers) : load_layouts_success(r, ListAnswers[k])
    \/ \E r \in requests : request_failed(r)

Spec == Init /\ [][Next]_vars

----------------------------------------------------------------------------
(* Vocabulary of the properties, stated on the graph and not by the lookups *)

\* The interfaces owned by node s: the targets of the 'interface' edges whose
\* source is s.
OwnedBy(s) == { links[k].target :
                  k \in { k \in 1..Len(links) :
                            links[k].type = "interface" /\ links[k].source = s } }

\* Whether an 'interface' edge targets node i.
HasOwner(i) == \E k \in 1..Len(links) : links[k].type = "interface" /\ links[k].target = i

\* The owner of i (the graphs have at most one 'interface' edge per target).
OwnerOf(i) == CHOOSE s \in NodeIndices : i \in OwnedBy(s)

IsPinned(n) == n.fx.t \notin { "undefined", "null" }

\* The position a node is held at: its pin, or (x, y) when it has none.
CentreX(n) == IF IsPinned(n) THEN n.fx ELSE n.x
CentreY(n) == IF IsPinned(n) THEN n.fy ELSE n.y

\* q lies on the ray from c through p: q = c + t (p - c) for some t >= 0.
OnRay(cx, cy, px, py, qx, qy) ==
    /\ (qx - cx) * (py - cy) = (qy - cy) * (px - cx)
    /\ (qx - cx) * (px - cx) + (qy - cy) * (py - cy) >= 0
    /\ (px = cx /\ py = cy) => (qx = cx /\ qy = cy)

OnRing(cx, cy, qx, qy) ==
    (qx - cx) * (qx - cx) + (qy - cy) * (qy - cy) = distance_interface * distance_interface

----------------------------------------------------------------------------
(* C1 *)

\* C1 (as claimed): in every drag event on a switch S, S's pin becomes the
\* pointer position and every interface owned by S has its pin (its (x, y)
\* when it had none) moved by exactly the change of S's pin in that event.
C1_SwitchDragMovesInterfacesRigidly ==
    [][\A d \in NodeIndices : \A p \in Pointer :
          (dragged(d, p.x, p.y) /\ nodes[d].type = "switch") =>
             /\ nodes'[d].fx = Num(p.x)
             /\ nodes'[d].fy = Num(p.y)
             /\ \A i \in OwnedBy(d) :
                   /\ IsNum(nodes'[i].fx) /\ IsNum(nodes'[i].fy)
                   /\ IsNum(CentreX(nodes[d])) /\ IsNum(CentreX(nodes[i]))
                   /\ nodes'[i].fx.v - CentreX(nodes[i]).v = p.x - CentreX(nodes[d]).v
                   /\ nodes'[i].fy.v - CentreY(nodes[i]).v = p.y - CentreY(nodes[d]).v]_vars

----------------------------------------------------------------------------
(* C2 *)

\* A drag event on interface d whose owner is resolvable, pointer at p.
InterfaceDragged(d, p) ==
    dragged(d, p.x, p.y) /\ nodes[d].type = "interface" /\ HasOwner(d)

\* C2 (as claimed): right after a drag event on an interface with a resolvable
\* owner, the interface's pin is at distance exactly distance['interface']
\* from the owner's centre (its pin, or (x, y) when it has none) and on the
\* ray from that centre through the pointer, for every pointer position.
C2_Original_OnRingAndOnRay ==
    [][\A d \in NodeIndices : \A p \in Pointer :
          InterfaceDragged(d, p) =>
             LET c == nodes[OwnerOf(d)]
             IN /\ IsNum(nodes'[d].fx) /\ IsNum(nodes'[d].fy)
                /\ OnRing(CentreX(c).v, CentreY(c).v, nodes'[d].fx.v, nodes'[d].fy.v)
                /\ OnRay(CentreX(c).v, CentreY(c).v, p.x, p.y,
                         nodes'[d].fx.v, nodes'[d].fy.v)]_vars

\* C2 (amended): the pin is on the ring for every pointer position; it is on
\* the ray from the centre through the pointer when the pointer is not on the
\* centre, and at angle 0, (cx + radius, cy), when it is.
C2_OnRingAndOnRayOffCentre ==
    [][\A d \in NodeIndices : \A p \in Pointer :
          InterfaceDragged(d, p) =>
             LET c == nodes[OwnerOf(d)]
                 cx == CentreX(c).v
                 cy == CentreY(c).v
             IN /\ IsNum(nodes'[d].fx) /\ IsNum(nodes'[d].fy)
                /\ OnRing(cx, cy, nodes'[d].fx.v, nodes'[d].fy.v)
                /\ (p.x # cx \/ p.y # cy) =>
                      OnRay(cx, cy, p.x, p.y, nodes'[d].fx.v, nodes'[d].fy.v)
                /\ (p.x = cx /\ p.y = cy) =>
                      (nodes'[d].fx.v = cx + distance_interface /\ nodes'[d].fy.v = cy)]_vars

\* An interface under drag is pinned at angle 0 of its owner's ring (the
\* pointer was on the centre) while another interface of the same owner is
\* pinned on the ring off the horizontal (the pointer was off the centre).
C2_Witness ==
    \E d \in NodeIndices : \E e \in NodeIndices :
        /\ d \in active /\ d # e
        /\ nodes[d].type = "interface" /\ nodes[e].type = "interface"
        /\ HasOwner(d) /\ HasOwner(e) /\ OwnerOf(d) = OwnerOf(e)
        /\ IsNum(nodes[d].fx) /\ IsNum(nodes[e].fx) /\ IsNum(nodes[e].fy)
        /\ LET c == nodes[OwnerOf(d)]
           IN /\ nodes[d].fx.v = CentreX(c).v + distance_interface
              /\ nodes[d].fy.v = CentreY(c).v
              /\ OnRing(CentreX(c).v, CentreY(c).v, nodes[e].fx.v, nodes[e].fy.v)
              /\ nodes[e].fy.v # CentreY(c).v

----------------------------------------------------------------------------
(* C3 *)

\* C3 (as claimed): a drag event on an interface that no 'interface' edge
\* targets pins it at the pointer position, and the handler ends without an
\* error.
C3_OwnerlessInterfaceFallsBack ==
    [][\A d \in NodeIndices : \A p \in Pointer :
          (dragged(d, p.x, p.y) /\ nodes[d].type = "interface" /\ ~HasOwner(d)) =>
             /\ nodes'[d].fx = Num(p.x)
             /\ nodes'[d].fy = Num(p.y)
             /\ uncaught' = uncaught]_vars

----------------------------------------------------------------------------
(* C4 *)

\* The nodes a release of d is to unpin: d, and its interfaces when d is a switch.
ReleaseCluster(d) == IF nodes[d].type = "switch" THEN {d} \cup OwnedBy(d) ELSE {d}

\* C4: releasing a switch clears fx and fy of the switch and of every
\* interface it owns and of no other node; releasing a host or an interface
\* clears fx and fy of that node only; nothing else of any node changes.
C4_ReleaseClearsTheClusterOnly ==
    [][\A d \in NodeIndices :
          release_node(d) =>
             /\ \A i \in ReleaseCluster(d) :
                   nodes'[i] = [nodes[i] EXCEPT !.fx = Null, !.fy = Null]
             /\ \A i \in NodeIndices \ ReleaseCluster(d) : nodes'[i] = nodes[i]]_vars

\* A switch and its two interfaces have been released (null pins) after a
\* drag of the switch had carried an interface beyond the lattice and a tick
\* had put it at that pin, while a host keeps its pin.
C4_Witness ==
    \E s \in NodeIndices : \E h \in NodeIndices :
        /\ nodes[s].type = "switch"
        /\ Cardinality(OwnedBy(s)) = 2
        /\ nodes[s].fx = Null /\ nodes[s].fy = Null
        /\ \A i \in OwnedBy(s) : nodes[i].fx = Null /\ nodes[i].fy = Null
        /\ \E i \in OwnedBy(s) : IsNum(nodes[i].x) /\ nodes[i].x.v > Lattice[2].x
        /\ nodes[h].type = "host" /\ IsNum(nodes[h].fx) /\ IsNum(nodes[h].fy)

----------------------------------------------------------------------------
(* C5, C6 *)

\* C5 (as claimed): when the answer of a restore is applied, every live node
\* whose name is a key of the layout's nodes map has x, y, fx and fy
\* overwritten with the stored values and the 'downlight' class of its circle
\* set to the stored value.
C5_RestoreOverwritesStoredNodes ==
    [][\A r \in requests :
          restore_layout_callback(r) =>
             \A i \in NodeIndices :
                nodes[i].name \in DOMAIN store[r.name].nodes =>
                   LET stored == store[r.name].nodes[nodes[i].name]
                   IN /\ nodes'[i].x = Get(stored, "x")
                      /\ nodes'[i].y = Get(stored, "y")
                      /\ nodes'[i].fx = Get(stored, "fx")
                      /\ nodes'[i].fy = Get(stored, "fy")
                      /\ downlight'[i] = stored.downlight]_vars

\* C6 (as claimed): the callback leaves every live node whose name is not a
\* key of the layout's nodes map as it was: its fields and the 'downlight'
\* class of its circle.
C6_RestoreLeavesAbsentNodes ==
    [][\A r \in requests :
          restore_layout_callback(r) =>
             \A i \in NodeIndices :
                nodes[i].name \notin DOMAIN store[r.name].nodes =>
                   (nodes'[i] = nodes[i] /\ downlight'[i] = downlight[i])]_vars

----------------------------------------------------------------------------
(* C7 *)

\* C7 (as claimed): capturing the layout and restoring that layout, as the
\* store holds it, right away leaves every node's x, y, fx, fy, every circle's
\* 'downlight' class and both checkboxes as they were.
C7_CaptureThenRestoreIsIdentity ==
    phase = "ready" =>
        LET layout == JSON_stringify(get_current_layout)
        IN /\ RestoredNodes(layout) = nodes
           /\ RestoredDownlight(downlight, layout, 1) = downlight
           /\ RestoredUnused(layout).checked = hide_unused_interfaces
           /\ RestoredHosts(layout).checked = hide_disconnected_hosts
           /\ RestoredHosts(layout).invisible = invisible

----------------------------------------------------------------------------
(* C8, C9 *)

\* An interface with no 'link' edge.
UnusedInterface(i) ==
    /\ nodes[i].type = "interface"
    /\ ~\E k \in 1..Len(links) :
          links[k].type = "link" /\ (links[k].source = i \/ links[k].target = i)

\* A host with no edge.
DisconnectedHost(i) ==
    /\ nodes[i].type = "host"
    /\ ~\E k \in 1..Len(links) : links[k].source = i \/ links[k].target = i

\* C8 (as claimed): a click on 'hide unused interfaces' gives the circles of
\* exactly the interfaces with no 'link' edge the new value of the checkbox as
\* their 'invisible' class (on: hidden, off: shown) and changes no other circle.
C8_ToggleHidesExactlyUnusedInterfaces ==
    [][click_hide_unused_interfaces =>
          \A i \in NodeIndices :
             invisible'[i] = IF UnusedInterface(i) THEN hide_unused_interfaces'
                             ELSE invisible[i]]_vars

\* C9 (as claimed): a click on 'hide disconnected hosts' gives the circles of
\* exactly the hosts with no edge the new value of the checkbox as their
\* 'invisible' class and changes no other circle: no host with an edge, no
\* interface, no switch.
C9_ToggleHidesExactlyDisconnectedHosts ==
    [][click_hide_disconnected_hosts =>
          \A i \in NodeIndices :
             invisible'[i] = IF DisconnectedHost(i) THEN hide_disconnected_hosts'
                             ELSE invisible[i]]_vars

----------------------------------------------------------------------------
(* C10 *)

\* C10: when the answer of a restore is applied, each checkbox is clicked
\* exactly when its stored value differs from its state (it flips then, and
\* only then), so that both end at the stored values; the visibility passes
\* run for the clicked boxes and no others.
C10_RestoreReconcilesCheckboxes ==
    [][\A r \in requests :
          restore_layout_callback(r) =>
             LET stored == store[r.name].other_settings
                 clickUnused == stored.hide_unused_interfaces # hide_unused_interfaces
                 clickHosts == stored.hide_disconnected_hosts # hide_disconnected_hosts
                 afterUnused == IF clickUnused
                                THEN toggle_unused_interfaces(invisible, ~hide_unused_interfaces)
                                ELSE invisible
                 afterHosts == IF clickHosts
                               THEN toggle_disconnected_hosts(afterUnused,
                                                              ~hide_disconnected_hosts)
                               ELSE afterUnused
             IN /\ (hide_unused_interfaces' # hide_unused_interfaces) <=> clickUnused
                /\ (hide_disconnected_hosts' # hide_disconnected_hosts) <=> clickHosts
                /\ hide_unused_interfaces' = stored.hide_unused_interfaces
                /\ hide_disconnected_hosts' = stored.hide_disconnected_hosts
                /\ invisible' = afterHosts]_vars

\* Layout "A" has been applied (only it pins the first switch where no drag
\* happens) on the graph with an unused interface: both checkboxes are at A's
\* stored values, which differ from the initial ones for the first and not
\* for the second, and the unused interface is hidden.
C10_Witness ==
    /\ phase = "ready"
    /\ spent.gestures = 0
    /\ requests = {}
    /\ IsNum(nodes[1].fx)
    /\ hide_unused_interfaces = store["A"].other_settings.hide_unused_interfaces
    /\ hide_disconnected_hosts = store["A"].other_settings.hide_disconnected_hosts
    /\ hide_unused_interfaces /\ ~hide_disconnected_hosts
    /\ \E i \in NodeIndices : UnusedInterface(i) /\ invisible[i]

----------------------------------------------------------------------------
(* C11 .. C14: the layout store *)

\* What a handler must leave alone to leave the node and toggle state intact.
NodeAndToggleState ==
    << nodes, downlight, invisible, hide_unused_interfaces, hide_disconnected_hosts >>

\* C11: save_layout with an empty name issues no request (the requests in
\* flight and the store are as before), shows its notice at once and changes
\* no node state.
C11_EmptyNameIsRejected ==
    [][save_layout("") =>
          /\ requests' = requests
          /\ spent'.requests = spent.requests
          /\ store' = store
          /\ notice' = "Please, choose a name for the layout."
          /\ UNCHANGED NodeAndToggleState]_vars

\* The notice of the rejection is shown on the drawn graph, the dialog still
\* open, and no request has ever been issued.
C11_Witness ==
    /\ phase = "ready"
    /\ saveDialog = "open"
    /\ notice = "Please, choose a name for the layout."
    /\ requests = {}
    /\ spent.requests = 0

\* C12 (as claimed): the save dialog is never closed while a save request is
\* in flight.
C12_DialogOpenUntilSaveResolves ==
    \A r \in requests : r.kind = "save" => saveDialog = "open"

\* C13 (as claimed): a layout store request that fails (save, list or load)
\* shows a notice and leaves the node and toggle state as it was.
C13_FailureIsNotified ==
    [][\A r \in requests :
          request_failed(r) =>
             /\ notice' # notice
             /\ notice' # ""
             /\ UNCHANGED NodeAndToggleState]_vars

\* The store reports no saved layout: no content, null, or no name.
ReportsNone(layouts) ==
    LooseUndefined(layouts) \/ layouts.v = << >>

\* C14 (as claimed): when the store reports no saved layout, by an absent
\* body or by an empty array, load_layouts shows its notice and does not
\* rebuild the control; otherwise the control holds one option per name
\* returned, in order.
C14_NoneSavedIsNoticed ==
    [][\A r \in requests, k \in 1..Len(ListAnswers) :
          load_layouts_success(r, ListAnswers[k]) =>
             IF ReportsNone(ListAnswers[k])
             THEN /\ notice' = "There isn't any saved layout to be loaded"
                  /\ savedLayouts' = savedLayouts
             ELSE savedLayouts' = [rebuilt |-> TRUE, options |-> ListAnswers[k].v]]_vars

----------------------------------------------------------------------------
(* C15 *)

\* C15: once the topology fetch has failed no partial graph is installed, then
\* or later: no circle is drawn, the simulation has no node and no link, and
\* no tick reaches a handler.
C15_FailedFetchInstallsNothing ==
    phase = "failed" =>
        /\ nodes = << >>
        /\ links = << >>
        /\ downlight = << >>
        /\ invisible = << >>
        /\ ~ENABLED Tick

\* The fetch has failed and a stored layout has been restored on the page
\* since (its checkbox setting is applied).
C15_Witness ==
    /\ phase = "failed"
    /\ uncaught
    /\ requests = {}
    /\ spent.requests > 0
    /\ hide_unused_interfaces

----------------------------------------------------------------------------
(* C16 *)

\* C16 (as claimed): for every node name of the drawn graph unfix_name undoes
\* fix_name, and two nodes of one type with different names have different
\* circle ids.
C16_EscapingIsReversibleAndCollisionSafe ==
    \A i \in NodeIndices :
        /\ unfix_name(fix_name(nodes[i].name)) = nodes[i].name
        /\ \A j \in NodeIndices :
              (nodes[i].type = nodes[j].type /\ nodes[i].name # nodes[j].name) =>
                 NodeId(nodes[i].type, nodes[i].name) # NodeId(nodes[j].type, nodes[j].name)

----------------------------------------------------------------------------
(* C17 *)

\* The node's name is a key of every stored layout.
InEveryLayout(i) ==
    \A name \in LayoutNames : nodes[i].name \in DOMAIN store[name].nodes

\* Load r overlaps another one: another load is still in flight, or a load
\* issued after r (so while r was in flight) has been answered before it.
Overlapping(r) ==
    \/ \E q \in requests \ {r} : q.kind = "restore"
    \/ r.id < spent.requests

\* C17 (as claimed): whenever the answer of an overlapping load is applied,
\* whether it was issued before or after the other, every node present in all
\* the layouts ends with the x, y, fx, fy and downlight values of the layout
\* applied (hence, once both are applied, with those of the one answered
\* last), and no other request in flight is dropped.
C17_LastResponseWins ==
    [][\A r \in requests :
          (Overlapping(r) /\ restore_layout_callback(r)) =>
             /\ requests' = requests \ {r}
             /\ \A i \in NodeIndices :
                   InEveryLayout(i) =>
                      LET stored == store[r.name].nodes[nodes[i].name]
                      IN /\ \A key \in CoordinateKeys : nodes'[i][key] = Get(stored, key)
                         /\ downlight'[i] = stored.downlight]_vars

----------------------------------------------------------------------------
(* C18 *)

\* C18 (as claimed): after a click on switch S the switch and the interfaces
\* it owns are not downlit, every other switch and interface is, and the
\* hosts are as they were.
C18_HighlightPass ==
    [][\A d \in NodeIndices :
          show_context(d) =>
             \A i \in NodeIndices :
                downlight'[i] =
                   IF nodes[i].type \in {"switch", "interface"}
                   THEN ~(i = d \/ i \in OwnedBy(d))
                   ELSE downlight[i]]_vars

----------------------------------------------------------------------------
(* C19 *)

\* C19: the alpha target is 0.3 (3 tenths) exactly while a drag gesture is in
\* progress and 0 otherwise, whatever ticks, releases and loads come in
\* between; applying a loaded layout leaves the timer running and the alpha
\* target as it was.
C19_HeatedWhileDragging ==
    /\ [](alphaTarget = IF active # {} THEN 3 ELSE 0)
    /\ [][\A r \in requests :
             restore_layout_callback(r) => (running' /\ alphaTarget' = alphaTarget)]_vars

\* Two gestures are in progress at once, after a tick and the restore of a
\* layout, the simulation heated.
C19_Witness ==
    /\ Cardinality(active) = 2
    /\ alphaTarget = 3
    /\ running
    /\ spent.ticks = 1
    /\ spent.requests = 1
    /\ requests = {}

----------------------------------------------------------------------------
(* C20 *)

\* The step is one of those that may set, move or clear the pin of node n.
MayChangePin(n) ==
    \/ release_node(n)
    \/ dragstarted(n)
    \/ \E p \in Pointer : dragged(n, p.x, p.y)
    \/ \E s \in NodeIndices :
          /\ n \in OwnedBy(s)
          /\ release_node(s) \/ \E p \in Pointer : dragged(s, p.x, p.y)
    \/ \E r \in requests :
          /\ nodes[n].name \in DOMAIN store[r.name].nodes
          /\ restore_layout_callback(r)

\* C20: drag start pins the node where it is; the end of the gesture, a tick
\* and every other step but a release or a drag of the node or of its owning
\* switch, or the restore of a layout holding the node, leave its pin (fx, fy)
\* as it is; and a tick puts a pinned node at its pin.
C20_PinsAreSticky ==
    [][/\ \A d \in NodeIndices :
             dragstarted(d) => (nodes'[d].fx = nodes[d].x /\ nodes'[d].fy = nodes[d].y)
       /\ \A n \in NodeIndices :
             (phase = "ready" /\ (nodes'[n].fx # nodes[n].fx \/ nodes'[n].fy # nodes[n].fy))
                => MayChangePin(n)
       /\ Tick => \A n \in NodeIndices :
                     IsPinned(nodes[n]) => (nodes'[n].x = nodes[n].fx /\ nodes'[n].y = nodes[n].fy
                                     /\ nodes'[n].fx = nodes[n].fx
                                     /\ nodes'[n].fy = nodes[n].fy)]_vars

\* An interface was dragged onto the ring of its switch, in the only drag
\* event of the run, and a tick has held it at that pin; another interface,
\* seeded at the first lattice point, had drifted to the second one in that
\* tick and was pinned there by the start of a gesture of its own; both
\* gestures have ended and no layout was restored.
C20_Witness ==
    /\ phase = "ready"
    /\ active = {}
    /\ spent.requests = 0
    /\ spent.ticks = 1
    /\ spent.gestures = 2
    /\ spent.drags = 1
    /\ \E n, m \in NodeIndices :
          /\ n # m
          /\ nodes[n].type = "interface" /\ HasOwner(n)
          /\ nodes[n].fx = Num(24) /\ nodes[n].fy = Num(18)
          /\ nodes[n].x = nodes[n].fx /\ nodes[n].y = nodes[n].fy
          /\ nodes[m].type = "interface"
          /\ InitialPosition(m) = Lattice[1]
          /\ nodes[m].fx = Num(Lattice[2].x) /\ nodes[m].fy = Num(Lattice[2].y)

====
